---- MODULE Spec2Model ----
(***************************************************************************)
(* Model of the general object store of git-odb: the published slot-map    *)
(* index (SlotMapIndex), the slots (MutableIndexAndPack), the lazily       *)
(* loaded files (OnDiskFile), and the operations load_one_index,           *)
(* consolidate_with_disk_state and collect_snapshot executed by            *)
(* concurrent threads.                                                     *)
(*                                                                         *)
(* consolidate_with_disk_state ends in `todo!("consolidate")` in the       *)
(* source: the part of a pass that comes after the partition of the        *)
(* scanned paths (slot allocation for new paths, publishing, retiring of   *)
(* removed slots, the returned outcome) is modelled from sections 4.2      *)
(* steps 9-12 of the specification.  The callers that load files lazily    *)
(* and that create handles are not part of the two source files either;    *)
(* they are modelled as environment actions.                               *)
(***************************************************************************)
EXTENDS Integers, Sequences, FiniteSets, TLC

----------------------------------------------------------------------------
(* Bounds of the model *)

MaxHandles == 1
MaxConsolidations == 2
MaxLoaded == 1

(* Program constants *)

\* generation: u8
GenerationModulus == 256

\* thread 1 is a caller which keeps the Snapshot of its last call and passes
\* the marker of it; thread 2 is a caller which passes the default marker or
\* the marker of what is published when it calls
Threads == {1, 2}
\* the .idx files which may exist in objects/pack; a higher number is a newer file
Paths == {1, 2}
\* the slots of Store::files
Slots == {1, 2}
\* addresses at which an Arc<SlotMapIndex> may be allocated; also used for
\* the identity of the Arc<AtomicUsize> of loaded_indices
Addrs == {1, 2, 3}
NoAddr == 0
NoThread == 0
NoObj == [none |-> TRUE]
NoFiles == [none |-> TRUE]

----------------------------------------------------------------------------
(* git_features::hash::crc32 / crc32_update, bit by bit (CRC-32, reflected, *)
(* polynomial 0xEDB88320), on 32-bit values kept as <<high 16 bits, low 16  *)
(* bits>>                                                                   *)

RECURSIVE BitXor(_, _, _)
\* a ^ b for values of n bits
BitXor(a, b, n) ==
  IF n = 0 THEN 0
  ELSE ((a + b) % 2) + 2 * BitXor(a \div 2, b \div 2, n - 1)

Xor32(x, y) == <<BitXor(x[1], y[1], 16), BitXor(x[2], y[2], 16)>>

CrcPoly == <<60856, 33568>>

CrcNot(c) == Xor32(c, <<65535, 65535>>)

\* one bit of input: shift right, and xor the polynomial when a one fell out
CrcShift(c) ==
  LET s == <<c[1] \div 2, (c[2] \div 2) + 32768 * (c[1] % 2)>>
  IN  IF c[2] % 2 = 1 THEN Xor32(s, CrcPoly) ELSE s

RECURSIVE CrcRounds(_, _)
CrcRounds(c, k) ==
  IF k = 0 THEN c
  ELSE LET s == CrcShift(c)
       IN  IF s[1] >= 0 THEN CrcRounds(s, k - 1) ELSE s

CrcByte(c, b) == CrcRounds(Xor32(c, <<0, b>>), 8)

RECURSIVE CrcBytes(_, _)
CrcBytes(c, bytes) ==
  IF bytes = << >> THEN c
  ELSE LET s == CrcByte(c, Head(bytes))
       IN  IF s[1] >= 0 THEN CrcBytes(s, Tail(bytes)) ELSE s

crc32_update(previous, bytes) == CrcNot(CrcBytes(CrcNot(previous), bytes))

crc32(bytes) == crc32_update(<<0, 0>>, bytes)

\* usize::to_be_bytes of a loaded-indices count (64-bit target)
CountBytes(n) == <<0, 0, 0, 0, 0, 0, n \div 256, n % 256>>

\* usize::to_be_bytes of Arc::as_ptr for the object allocated at address a:
\* heap addresses 48 bytes apart
PtrBytes(a) == <<0, 0, 127, 164, 28, 0, 16 + ((16 + 48 * a) \div 256), (16 + 48 * a) % 256>>

\* SlotMapIndex::state_id for every address and count of the model
StateIdTable ==
  [a \in Addrs |-> [n \in 0..(MaxLoaded + 1) |->
      crc32_update(crc32(PtrBytes(a)), CountBytes(n))]]

----------------------------------------------------------------------------
(* State *)

VARIABLES
  index,                         \* Store::index, the address of the published SlotMapIndex
  heap,                          \* the SlotMapIndex objects alive, by address
  cells,                         \* the AtomicUsize behind SlotMapIndex::loaded_indices, by identity
  files,                         \* Store::files, MutableIndexAndPack::files of every slot
  path_lock,                     \* Store::path, the mutex: the thread holding it
  num_handles_stable,            \* Store::num_handles_stable
  num_disk_state_consolidation,  \* Store::num_disk_state_consolidation
  pc,                            \* position of every thread
  loc,                           \* local variables of the call a thread executes
  held,                          \* the Snapshot thread 1 holds from its last call
  res,                           \* what the last call of thread 1 returned
  former,                        \* history: the path a slot had when it was last emptied
  slot_lock,                     \* MutableIndexAndPack::write of every slot: is it held
  last_load                      \* the last call of do_load made on its own, and its result

vars == <<index, heap, cells, files, path_lock, num_handles_stable,
          num_disk_state_consolidation, pc, loc, held, res, former, slot_lock, last_load>>

ObjectsDirectory == "objects"

\* the path of an index file: <<stem, extension>>
IdxPath(n) == <<n, "idx">>
AllIdxPaths == {IdxPath(n) : n \in Paths}

\* modification time of a file on disk: files with a higher stem are newer
mtime(p) == p[1]

\* Path::with_extension
with_extension(p, ext) == <<p[1], ext>>

----------------------------------------------------------------------------
(* store.rs *)

\* SlotIndexMarker::default()
DefaultMarker == [generation |-> 0, state_id |-> <<0, 0>>]

\* SlotMapIndex::default(); its counter is the cell c
DefaultSlotMapIndex(c) ==
  [slot_indices |-> << >>, loose_dbs |-> << >>, generation |-> 0, loaded_indices |-> c]

\* a variant which hashes the address alone
state_id_of_address(a, h, c) == StateIdTable[a][0]

\* SlotMapIndex::state_id of the object at address a, reading the counter now
state_id(a, h, c) == StateIdTable[a][c[h[a].loaded_indices]]

\* SlotMapIndex::marker
marker(a, h, c) == [generation |-> h[a].generation, state_id |-> state_id(a, h, c)]

\* SlotMapIndex::is_initialized
is_initialized(i) == i.loose_dbs # << >>

\* Option::None of loaded()
None == << >>

\* OnDiskFile::is_loaded
is_loaded(f) == f.state \in {"Loaded", "Garbage"}

\* OnDiskFile::loaded; the value of a file is named by its path
loaded(f) == IF f.state \in {"Loaded", "Garbage"} THEN f.path ELSE None

\* a variant which takes every error of the opener for a missing file
do_load_error_as_missing(f, opener) ==
  CASE f.state \in {"Loaded", "Garbage"} ->
         [file |-> f, ret |-> "panic", opened |-> FALSE]
    [] f.state = "Missing" ->
         [file |-> f, ret |-> "None", opened |-> FALSE]
    [] f.state = "Unloaded" /\ opener = "ok" ->
         [file |-> [f EXCEPT !.state = "Loaded"], ret |-> "Some", opened |-> TRUE]
    [] OTHER ->
         [file |-> [f EXCEPT !.state = "Missing"], ret |-> "None", opened |-> TRUE]

\* a variant which tries a missing file again
do_load_retries_missing(f, opener) ==
  CASE f.state \in {"Loaded", "Garbage"} ->
         [file |-> f, ret |-> "panic", opened |-> FALSE]
    [] f.state \in {"Unloaded", "Missing"} /\ opener = "ok" ->
         [file |-> [f EXCEPT !.state = "Loaded"], ret |-> "Some", opened |-> TRUE]
    [] f.state \in {"Unloaded", "Missing"} /\ opener = "notfound" ->
         [file |-> [f EXCEPT !.state = "Missing"], ret |-> "None", opened |-> TRUE]
    [] OTHER ->
         [file |-> f, ret |-> "Err", opened |-> TRUE]

\* OnDiskFile::do_load with the result of the opener ("ok", "notfound",
\* "error"); opened tells whether the opener was invoked
do_load(f, opener) ==
  CASE f.state \in {"Loaded", "Garbage"} ->
         [file |-> f, ret |-> "panic", opened |-> FALSE]
    [] f.state = "Missing" ->
         [file |-> f, ret |-> "None", opened |-> FALSE]
    [] f.state = "Unloaded" /\ opener = "ok" ->
         [file |-> [f EXCEPT !.state = "Loaded"], ret |-> "Some", opened |-> TRUE]
    [] f.state = "Unloaded" /\ opener = "notfound" ->
         [file |-> [f EXCEPT !.state = "Missing"], ret |-> "None", opened |-> TRUE]
    [] OTHER ->
         [file |-> f, ret |-> "Err", opened |-> TRUE]

\* IndexAndPacks::index_path
index_path(b) == b.index.path

\* IndexAndPacks::new_single
new_single(p) ==
  [index |-> [path |-> p, state |-> "Unloaded"],
   data  |-> [path |-> with_extension(p, "pack"), state |-> "Unloaded"]]

----------------------------------------------------------------------------
(* Threads *)

NoLocals ==
  [mode |-> "-", marker |-> DefaultMarker, loi_index |-> NoAddr, con_index |-> NoAddr, previous_generation |-> 0,
   con_index2 |-> NoAddr, needs_stable_indices |-> FALSE, removed |-> {},
   is_stable |-> FALSE, cs_index |-> NoAddr, indices |-> << >>,
   via |-> "-", waited |-> FALSE]

EmptySnapshot == [indices |-> << >>, loose_dbs |-> << >>, marker |-> DefaultMarker]

\* no call of do_load so far
NoLoad == [slot |-> 0, member |-> "-", opener |-> "-", before |-> "-", ret |-> "-",
           opened |-> 0, retry |-> FALSE]

\* the outcome of the last call of thread 1, the marker it passed when the
\* outcome was that nothing is new, and whether it was a call which found
\* the store uninitialized and whose outcome the caller has kept
NoResult == [kind |-> "-", marker |-> DefaultMarker, first |-> FALSE]

\* the SlotMapIndex objects a thread keeps alive through the guards of index.load()
Refs(l) == {l.loi_index, l.con_index, l.con_index2, l.cs_index} \ {NoAddr}

\* dropping the last Arc frees the object
Collect(h, idx, L) ==
  [a \in Addrs |-> IF a = idx \/ \E t \in Threads : a \in Refs(L[t]) THEN h[a] ELSE NoObj]

CollectCells(c, h) ==
  [k \in Addrs |-> IF \E a \in Addrs : h[a] # NoObj /\ h[a].loaded_indices = k
                   THEN c[k] ELSE 0]

Init ==
  /\ index = 1
  /\ heap = [a \in Addrs |-> IF a = 1 THEN DefaultSlotMapIndex(1) ELSE NoObj]
  /\ cells = [k \in Addrs |-> 0]
  /\ files = [s \in Slots |-> NoFiles]
  /\ path_lock = NoThread
  /\ num_handles_stable = 0
  /\ num_disk_state_consolidation = 0
  /\ pc = [t \in Threads |-> "idle"]
  /\ loc = [t \in Threads |-> NoLocals]
  /\ held = EmptySnapshot
  /\ res = NoResult
  /\ former = [s \in Slots |-> None]
  /\ slot_lock = [s \in Slots |-> FALSE]
  /\ last_load = NoLoad

\* a call of thread t returns: its guards are dropped (the lock guard too);
\* thread 1 keeps the Snapshot it got, or drops it and goes on with the one
\* it has (keeps = FALSE). It is noted for a thread which is about to take
\* the directory-scan lock that the call of another thread has failed
\* meanwhile (waited).
Return(t, kind, snapshot, keeps, h, c) ==
  LET L == [u \in Threads |->
              IF u = t THEN NoLocals
              ELSE IF kind = "Err" /\ pc[u] = "con_lock"
                   THEN [loc[u] EXCEPT !.waited = TRUE]
                   ELSE loc[u]]
      h2 == Collect(h, index', L)
  IN  /\ pc' = [pc EXCEPT ![t] = "idle"]
      /\ loc' = L
      /\ heap' = h2
      /\ cells' = CollectCells(c, h2)
      /\ path_lock' = IF path_lock = t THEN NoThread ELSE path_lock
      /\ held' = IF t = 1 /\ keeps /\ kind \in {"Replace", "ReplaceStable", "Snapshot"}
                 THEN snapshot ELSE held
      /\ res' = IF t = 1
                THEN [kind |-> kind,
                      marker |-> IF kind = "NothingNew" THEN loc[t].marker ELSE DefaultMarker,
                      first |-> /\ keeps
                                /\ kind \in {"Replace", "ReplaceStable"}
                                /\ loc[t].loi_index # NoAddr
                                /\ ~is_initialized(heap[loc[t].loi_index])]
                ELSE res
      /\ former' = former
      /\ slot_lock' = slot_lock
      /\ last_load' = last_load

----------------------------------------------------------------------------
(* load_index.rs: load_one_index *)

RefreshModes == {"Never", "AfterAllIndicesLoaded"}

\* the refresh modes thread t calls load_one_index with, where two threads call
ModesOf(t) == {"AfterAllIndicesLoaded"}

\* the markers thread t may pass to load_one_index
MarkersOf(t) == IF t = 1 THEN {held.marker} ELSE {marker(index, heap, cells)}

\* a variant which leaves out the comparison of the generations
load_one_index_branch_without_generation(m, generation, current_state_id) ==
  IF m.state_id = current_state_id THEN "unchanged" ELSE "replace_stable"

\* a variant which never finds the state unchanged
load_one_index_branch_never_unchanged(m, generation, current_state_id) ==
  IF m.generation # generation THEN "replace" ELSE "replace_stable"

\* the branch load_one_index takes for a marker, given the generation of the
\* index it loaded and the state id it computes for it (lines 73-86)
load_one_index_branch(m, generation, current_state_id) ==
  IF m.generation # generation THEN "replace"
  ELSE IF m.state_id = current_state_id THEN "unchanged"
  ELSE "replace_stable"

\* a variant which compares the marker on an uninitialized store as well
load_one_index_compares_uninitialized(t, refresh_mode, m) ==
  /\ pc[t] = "idle"
  /\ loc' = [loc EXCEPT ![t] = [NoLocals EXCEPT !.mode = refresh_mode, !.marker = m,
                                !.loi_index = index]]
  /\ pc' = [pc EXCEPT ![t] = "loi_compare"]
  /\ UNCHANGED <<index, heap, cells, files, path_lock, num_handles_stable,
                 num_disk_state_consolidation, held, res, former, slot_lock, last_load>>

\* lines 59-70
load_one_index(t, refresh_mode, m) ==
  /\ pc[t] = "idle"
  /\ loc' = [loc EXCEPT ![t] = [NoLocals EXCEPT !.mode = refresh_mode, !.marker = m,
                                !.loi_index = index,
                                !.via = IF is_initialized(heap[index]) THEN "-" ELSE "uninitialized"]]
  /\ pc' = [pc EXCEPT ![t] = IF is_initialized(heap[index]) THEN "loi_compare" ELSE "con_record"]
  /\ UNCHANGED <<index, heap, cells, files, path_lock, num_handles_stable,
                 num_disk_state_consolidation, held, res, former, slot_lock, last_load>>

\* lines 72-88
loi_compare(t) ==
  /\ pc[t] = "loi_compare"
  /\ LET branch == load_one_index_branch(loc[t].marker, heap[loc[t].loi_index].generation,
                                         state_id(loc[t].loi_index, heap, cells))
     IN  CASE branch = "replace" ->
                /\ loc' = [loc EXCEPT ![t].via = "generation", ![t].is_stable = FALSE]
                /\ pc' = [pc EXCEPT ![t] = "cs_load"]
                /\ UNCHANGED <<index, heap, cells, path_lock, held, res, former, slot_lock, last_load>>
           [] branch = "replace_stable" ->
                /\ loc' = [loc EXCEPT ![t].via = "state", ![t].is_stable = TRUE]
                /\ pc' = [pc EXCEPT ![t] = "cs_load"]
                /\ UNCHANGED <<index, heap, cells, path_lock, held, res, former, slot_lock, last_load>>
           [] branch = "unchanged" /\ loc[t].mode = "Never" ->
                /\ UNCHANGED index
                /\ Return(t, "NothingNew", held, FALSE, heap, cells)
           [] OTHER ->
                /\ loc' = [loc EXCEPT ![t].via = "unchanged"]
                /\ pc' = [pc EXCEPT ![t] = "con_record"]
                /\ UNCHANGED <<index, heap, cells, path_lock, held, res, former, slot_lock, last_load>>
  /\ UNCHANGED <<files, num_handles_stable, num_disk_state_consolidation>>

----------------------------------------------------------------------------
(* load_index.rs: collect_snapshot and collect_replace_outcome *)

\* Store::snapshot(): collect_snapshot called directly
snapshot(t) ==
  /\ pc[t] = "idle"
  /\ loc' = [loc EXCEPT ![t] = [NoLocals EXCEPT !.via = "snapshot", !.cs_index = index]]
  /\ pc' = [pc EXCEPT ![t] = "cs_walk"]
  /\ UNCHANGED <<index, heap, cells, files, path_lock, num_handles_stable,
                 num_disk_state_consolidation, held, res, former, slot_lock, last_load>>

\* line 238, reached through collect_replace_outcome
cs_load(t) ==
  /\ pc[t] = "cs_load"
  /\ loc' = [loc EXCEPT ![t].cs_index = index]
  /\ pc' = [pc EXCEPT ![t] = "cs_walk"]
  /\ UNCHANGED <<index, heap, cells, files, path_lock, num_handles_stable,
                 num_disk_state_consolidation, held, res, former, slot_lock, last_load>>

\* a variant which leaves out a slot whose data file is not loaded
index_lookup_needs_data(id, f) ==
  IF f = NoFiles \/ loaded(f.index) = None \/ loaded(f.data) = None THEN None
  ELSE [id |-> id, index |-> loaded(f.index), data |-> loaded(f.data)]

\* lines 244-256: the lookup entry of slot id, or None
index_lookup(id, f) ==
  IF f = NoFiles \/ loaded(f.index) = None THEN None
  ELSE [id |-> id, index |-> loaded(f.index), data |-> loaded(f.data)]

RECURSIVE filter_map_slots(_, _)
filter_map_slots(slot_indices, F) ==
  IF slot_indices = << >> THEN << >>
  ELSE LET e == index_lookup(Head(slot_indices), F[Head(slot_indices)])
       IN  (IF e = None THEN << >> ELSE <<e>>) \o filter_map_slots(Tail(slot_indices), F)

\* lines 239-260
collect_indices(i, F) ==
  IF is_initialized(i) THEN filter_map_slots(i.slot_indices, F) ELSE << >>

\* a variant which takes the write lock of every slot it looks at
cs_walk_locking_slots(t) ==
  /\ pc[t] = "cs_walk"
  /\ \A k \in 1..Len(heap[loc[t].cs_index].slot_indices) :
       ~slot_lock[heap[loc[t].cs_index].slot_indices[k]]
  /\ loc' = [loc EXCEPT ![t].indices = collect_indices(heap[loc[t].cs_index], files)]
  /\ pc' = [pc EXCEPT ![t] = "cs_marker"]
  /\ UNCHANGED <<index, heap, cells, files, path_lock, num_handles_stable,
                 num_disk_state_consolidation, held, res, former, slot_lock, last_load>>

cs_walk(t) ==
  /\ pc[t] = "cs_walk"
  /\ loc' = [loc EXCEPT ![t].indices = collect_indices(heap[loc[t].cs_index], files)]
  /\ pc' = [pc EXCEPT ![t] = "cs_marker"]
  /\ UNCHANGED <<index, heap, cells, files, path_lock, num_handles_stable,
                 num_disk_state_consolidation, held, res, former, slot_lock, last_load>>

\* lines 269-276
collect_replace_outcome(is_stable) == IF is_stable THEN "ReplaceStable" ELSE "Replace"

\* a variant which loads the published index once more for the marker
cs_marker_of_second_load(t, keeps) ==
  /\ pc[t] = "cs_marker"
  /\ UNCHANGED <<index, files, num_handles_stable, num_disk_state_consolidation>>
  /\ Return(t,
            IF loc[t].via = "snapshot" THEN "Snapshot"
            ELSE collect_replace_outcome(loc[t].is_stable),
            [indices |-> loc[t].indices,
             loose_dbs |-> heap[index].loose_dbs,
             marker |-> marker(index, heap, cells)],
            keeps, heap, cells)

\* lines 262-266 and the return of the caller
cs_marker(t, keeps) ==
  /\ pc[t] = "cs_marker"
  /\ UNCHANGED <<index, files, num_handles_stable, num_disk_state_consolidation>>
  /\ Return(t,
            IF loc[t].via = "snapshot" THEN "Snapshot"
            ELSE collect_replace_outcome(loc[t].is_stable),
            [indices |-> loc[t].indices,
             loose_dbs |-> heap[loc[t].cs_index].loose_dbs,
             marker |-> marker(loc[t].cs_index, heap, cells)],
            keeps, heap, cells)

----------------------------------------------------------------------------
(* load_index.rs: consolidate_with_disk_state *)

\* lines 93-95
con_record(t) ==
  /\ pc[t] = "con_record"
  /\ loc' = [loc EXCEPT ![t].con_index = index,
                        ![t].previous_generation = heap[index].generation]
  /\ pc' = [pc EXCEPT ![t] = "con_lock"]
  /\ UNCHANGED <<index, heap, cells, files, path_lock, num_handles_stable,
                 num_disk_state_consolidation, held, res, former, slot_lock, last_load>>

\* a variant of the mutex which never blocks
mutex_lockable_always(holder) == TRUE

\* parking_lot::Mutex::lock succeeds when nobody holds the mutex
mutex_lockable(holder) == holder = NoThread

\* lines 233-235
maintain_stable_indices(handles_stable) == handles_stable = 0

\* line 156: newest first
RECURSIVE sort_by_modification_time(_)
sort_by_modification_time(S) ==
  IF S = {} THEN << >>
  ELSE LET p == CHOOSE x \in S : \A y \in S : mtime(y) <= mtime(x)
       IN  <<p>> \o sort_by_modification_time(S \ {p})

\* lines 157-164: the BTreeMap from index path to slot index; a later entry
\* of slot_indices replaces an earlier one of the same path
idx_by_index_path(i, F) ==
  LET bound == {k \in 1..Len(i.slot_indices) : F[i.slot_indices[k]] # NoFiles}
      paths == {index_path(F[i.slot_indices[k]]) : k \in bound}
      last(p) == CHOOSE k \in bound :
                   /\ index_path(F[i.slot_indices[k]]) = p
                   /\ \A j \in bound : index_path(F[i.slot_indices[j]]) = p => j <= k
  IN  [p \in paths |-> i.slot_indices[last(p)]]

\* lines 190-226: the bundle the slot holds afterwards, or a panic
assure_slot_for_path(f, p, may_init) ==
  IF f # NoFiles
  THEN [panic |-> index_path(f) # p, files |-> f]
  ELSE IF may_init
       THEN [panic |-> FALSE, files |-> new_single(p)]
       ELSE [panic |-> TRUE, files |-> f]

\* lines 170-179: the slots of the scanned paths which are known already
RECURSIVE existing_slot_map_indices(_, _)
existing_slot_map_indices(sorted, by_path) ==
  IF sorted = << >> THEN << >>
  ELSE (IF Head(sorted) \in DOMAIN by_path THEN <<by_path[Head(sorted)]>> ELSE << >>)
       \o existing_slot_map_indices(Tail(sorted), by_path)

\* lines 170-179: the scanned paths which are new
index_paths_to_add(sorted, by_path) ==
  SelectSeq(sorted, LAMBDA p : p \notin DOMAIN by_path)

\* lines 118-128
loose_dbs_for(i, db_paths) ==
  IF \/ ~is_initialized(i)
     \/ Len(db_paths) # Len(i.loose_dbs)
     \/ \E k \in 1..Len(db_paths) : k <= Len(i.loose_dbs) /\ db_paths[k] # i.loose_dbs[k]
  THEN db_paths
  ELSE i.loose_dbs

\* a variant which takes the slots of garbage for new paths as well
RECURSIVE assign_new_slots_over_garbage(_, _)
assign_new_slots_over_garbage(paths, F) ==
  IF paths = << >> THEN [files |-> F, slots |-> << >>, panic |-> FALSE]
  ELSE LET usable(x) == \/ F[x] = NoFiles
                        \/ F[x].index.state \in {"Garbage", "Missing"}
           s == CHOOSE x \in Slots : usable(x) /\ \A y \in Slots : usable(y) => x <= y
           r == assign_new_slots_over_garbage(Tail(paths),
                                              [F EXCEPT ![s] = new_single(Head(paths))])
       IN  [files |-> r.files, slots |-> <<s>> \o r.slots, panic |-> r.panic]

\* section 4.2 step 9: every new path gets a fresh slot, the lowest free one,
\* initialised by assure_slot_for_path(.., may_init = true)
RECURSIVE assign_new_slots(_, _)
assign_new_slots(paths, F) ==
  IF paths = << >> THEN [files |-> F, slots |-> << >>, panic |-> FALSE]
  ELSE LET s == CHOOSE x \in Slots : F[x] = NoFiles /\ \A y \in Slots : F[y] = NoFiles => x <= y
           a == assure_slot_for_path(F[s], Head(paths), TRUE)
           r == assign_new_slots(Tail(paths), [F EXCEPT ![s] = a.files])
       IN  [files |-> r.files, slots |-> <<s>> \o r.slots, panic |-> a.panic \/ r.panic]

\* section 4.2 step 12
next_generation(generation, removed, needs_stable_indices) ==
  IF removed # {} /\ ~needs_stable_indices
  THEN (generation + 1) % GenerationModulus
  ELSE generation

\* section 4.2 step 10 with stability required, and OnDiskFileState's
\* documentation in store.rs: a loaded file becomes garbage, an unloaded one missing
declare_garbage(b) ==
  LET g(f) == [f EXCEPT !.state = CASE f.state = "Loaded" -> "Garbage"
                                    [] f.state = "Unloaded" -> "Missing"
                                    [] OTHER -> f.state]
  IN  [index |-> g(b.index), data |-> g(b.data)]

\* section 4.2 step 10
retire_slot(b, needs_stable_indices) ==
  IF needs_stable_indices THEN declare_garbage(b) ELSE NoFiles

\* the results of the filesystem calls of one pass.
\* alt_err: alternate::resolve fails (else there are no alternates); rd: result
\* of read_dir of objects/pack; entries: the index files the directory holds
\* when it is read; unreadable: the entries whose DirEntry or metadata is an
\* error; mt_err: modified() fails for an entry
ScanOutcomes ==
  {sc \in [alt_err : BOOLEAN, rd : {"ok", "notfound", "error"}, entries : SUBSET AllIdxPaths,
           unreadable : SUBSET AllIdxPaths, mt_err : BOOLEAN] :
     /\ sc.unreadable \subseteq sc.entries
     /\ sc.rd # "ok" => sc.entries = {}
     /\ sc.mt_err => sc.entries \ sc.unreadable # {}
     /\ sc.alt_err => sc.rd = "ok" /\ sc.entries = {} /\ ~sc.mt_err}

\* a variant which takes every change of the index for a compatible one
con_changed_always_stable(t) ==
  /\ loc' = [loc EXCEPT ![t].con_index2 = index,
                        ![t].is_stable = TRUE,
                        ![t].via = "changed"]
  /\ pc' = [pc EXCEPT ![t] = "cs_load"]
  /\ path_lock' = t
  /\ UNCHANGED <<index, heap, cells, files, num_handles_stable,
                 num_disk_state_consolidation, held, res, former, slot_lock, last_load>>

\* lines 102-107: the index changed since con_record; the call answers with
\* what is published, keeping the lock until it returns
con_changed(t) ==
  /\ loc' = [loc EXCEPT ![t].con_index2 = index,
                        ![t].is_stable =
                           (heap[index].generation = loc[t].previous_generation),
                        ![t].via = "changed"]
  /\ pc' = [pc EXCEPT ![t] = "cs_load"]
  /\ path_lock' = t
  /\ UNCHANGED <<index, heap, cells, files, num_handles_stable,
                 num_disk_state_consolidation, held, res, former, slot_lock, last_load>>

\* lines 113-115, 134-138 and 149-150: the filesystem results which end the
\* pass with an error
con_failed(sc) == sc.alt_err \/ sc.rd = "error" \/ sc.mt_err

\* a variant which has given slots to the entries it read before it fails
con_fail_after_assignment(t, sc) ==
  LET bound == {index_path(files[s]) : s \in {x \in Slots : files[x] # NoFiles}}
      to_add == sort_by_modification_time(sc.entries \ bound)
  IN  /\ Len(to_add) <= Cardinality({s \in Slots : files[s] = NoFiles})
      /\ files' = assign_new_slots(to_add, files).files
      /\ UNCHANGED index
      /\ Return(t, "Err", held, FALSE, heap, cells)

\* a variant which publishes the index anew when the pass fails
con_fail_republishes(t, sc) ==
  /\ \E a \in Addrs :
       /\ heap[a] = NoObj
       /\ \A b \in Addrs : heap[b] = NoObj => a <= b
       /\ index' = a
       /\ Return(t, "Err", held, FALSE, [heap EXCEPT ![a] = heap[index]], cells)
  /\ UNCHANGED files

\* the `?` of lines 115, 137 and 150: the pass ends with the error, before it
\* has changed a slot or the index
con_fail(t, sc) ==
  /\ UNCHANGED <<index, files>>
  /\ Return(t, "Err", held, FALSE, heap, cells)

\* lines 109-187: one pass with the filesystem results sc, up to the
\* publication of the new index
con_pass(t, sc, limit) ==
  /\ num_disk_state_consolidation < limit
  /\ num_disk_state_consolidation' = num_disk_state_consolidation + 1
  /\   LET i == heap[index]
           needs_stable_indices == maintain_stable_indices(num_handles_stable)
           db_paths == <<ObjectsDirectory>>
           scanned == IF sc.rd = "ok" THEN sc.entries \ sc.unreadable ELSE {}
           sorted == sort_by_modification_time(scanned)
           by_path == idx_by_index_path(i, files)
           existing == existing_slot_map_indices(sorted, by_path)
           assured == \A p \in scanned \cap DOMAIN by_path :
                         ~assure_slot_for_path(files[by_path[p]], p, FALSE).panic
           to_add == index_paths_to_add(sorted, by_path)
           removed == {by_path[p] : p \in DOMAIN by_path \ scanned}
           free == {s \in Slots : files[s] = NoFiles}
       IN  /\ IF con_failed(sc)
              THEN con_fail(t, sc)
              ELSE /\ assured
                   /\ Len(to_add) <= Cardinality(free)
                   /\ LET new == assign_new_slots(to_add, files)
                          generation == next_generation(i.generation, removed,
                                                        needs_stable_indices)
                          retained == IF needs_stable_indices
                                      THEN SelectSeq(i.slot_indices, LAMBDA s : s \in removed)
                                      ELSE << >>
                          cell == IF generation = i.generation THEN i.loaded_indices
                                  ELSE CHOOSE k \in Addrs :
                                         /\ \A a \in Addrs : heap[a] # NoObj
                                                              => heap[a].loaded_indices # k
                                         /\ \A j \in Addrs :
                                              (\A a \in Addrs : heap[a] # NoObj
                                                                 => heap[a].loaded_indices # j)
                                              => k <= j
                          published == [slot_indices |-> existing \o new.slots \o retained,
                                        loose_dbs |-> loose_dbs_for(i, db_paths),
                                        generation |-> generation,
                                        loaded_indices |-> cell]
                      IN  /\ ~new.panic
                          /\ \A k \in 1..Len(new.slots) : ~slot_lock[new.slots[k]]
                          /\ \E a \in Addrs :
                               /\ heap[a] = NoObj
                               /\ \A b \in Addrs : heap[b] = NoObj => a <= b
                               /\ index' = a
                               /\ heap' = [heap EXCEPT ![a] = published]
                          /\ cells' = cells
                          /\ files' = new.files
                          /\ path_lock' = t
                          /\ loc' = [loc EXCEPT ![t].con_index2 = index,
                                                ![t].needs_stable_indices = needs_stable_indices,
                                                ![t].removed = removed,
                                                ![t].is_stable = (generation = i.generation),
                                                ![t].via = "pass"]
                          /\ pc' = [pc EXCEPT ![t] = IF removed = {} THEN "cs_load"
                                                     ELSE "con_remove"]
                          /\ UNCHANGED <<held, res, former, slot_lock, last_load>>
  /\ UNCHANGED num_handles_stable

\* lines 98-101: the lock is taken and the published index is read again;
\* nobody else publishes while the lock is held
con_lock(t, sc, limit) ==
  /\ pc[t] = "con_lock"
  /\ mutex_lockable(path_lock)
  /\ IF loc[t].con_index # index THEN con_changed(t) ELSE con_pass(t, sc, limit)

\* lines 183-185 and section 4.2 step 10, after the new index is set
con_remove(t) ==
  /\ pc[t] = "con_remove"
  /\ files' = [s \in Slots |-> IF s \in loc[t].removed
                               THEN retire_slot(files[s], loc[t].needs_stable_indices)
                               ELSE files[s]]
  /\ former' = [s \in Slots |-> IF s \in loc[t].removed /\ ~loc[t].needs_stable_indices
                                THEN index_path(files[s])
                                ELSE former[s]]
  /\ pc' = [pc EXCEPT ![t] = "cs_load"]
  /\ UNCHANGED <<index, heap, cells, path_lock, num_handles_stable,
                 num_disk_state_consolidation, loc, held, res, slot_lock, last_load>>

----------------------------------------------------------------------------
(* The environment: the handles, the lazy loading of files.  The files on  *)
(* disk are read when a pass lists the directory and when a file is opened; *)
(* what is found there is an input of these steps.                          *)

\* a handle which needs stable pack ids is created
handle_stable_add ==
  /\ num_handles_stable < MaxHandles
  /\ num_handles_stable' = num_handles_stable + 1
  /\ UNCHANGED <<index, heap, cells, files, path_lock,
                 num_disk_state_consolidation, pc, loc, held, res, former, slot_lock, last_load>>

\* such a handle is dropped
handle_stable_drop ==
  /\ num_handles_stable > 0
  /\ num_handles_stable' = num_handles_stable - 1
  /\ UNCHANGED <<index, heap, cells, files, path_lock,
                 num_disk_state_consolidation, pc, loc, held, res, former, slot_lock, last_load>>

OpenerOutcomes == {"ok", "notfound", "error"}

\* some thread loads the index file of a slot of the published index: do_load
\* under the write lock of the slot, then one more attempt is counted in
\* loaded_indices (store.rs lines 56-59)
load_index_file(s, opener) ==
  /\ ~slot_lock[s]
  /\ \E k \in 1..Len(heap[index].slot_indices) : heap[index].slot_indices[k] = s
  /\ files[s] # NoFiles
  /\ ~is_loaded(files[s].index)
  /\ LET r == do_load(files[s].index, opener)
         c == heap[index].loaded_indices
     IN  /\ r.opened => cells[c] < MaxLoaded
         /\ files' = [files EXCEPT ![s].index = r.file]
         /\ cells' = IF r.opened THEN [cells EXCEPT ![c] = @ + 1] ELSE cells
  /\ UNCHANGED <<index, heap, path_lock, num_handles_stable,
                 num_disk_state_consolidation, pc, loc, held, res, former, slot_lock, last_load>>

\* the same in two steps: a thread which wants to load the index file of a
\* slot takes the write lock of the slot
loader_lock(s) ==
  /\ ~slot_lock[s]
  /\ \E k \in 1..Len(heap[index].slot_indices) : heap[index].slot_indices[k] = s
  /\ files[s] # NoFiles
  /\ ~is_loaded(files[s].index)
  /\ slot_lock' = [slot_lock EXCEPT ![s] = TRUE]
  /\ UNCHANGED <<index, heap, cells, files, path_lock, num_handles_stable,
                 num_disk_state_consolidation, pc, loc, held, res, former, last_load>>

\* with the lock it looks at the slot again, loads the file if that is still
\* to be done, and releases the lock
loader_load(s, opener) ==
  /\ slot_lock[s]
  /\ slot_lock' = [slot_lock EXCEPT ![s] = FALSE]
  /\ IF files[s] # NoFiles /\ ~is_loaded(files[s].index)
     THEN LET r == do_load(files[s].index, opener)
              c == heap[index].loaded_indices
          IN  /\ r.opened => cells[c] < MaxLoaded
              /\ files' = [files EXCEPT ![s].index = r.file]
              /\ cells' = IF r.opened THEN [cells EXCEPT ![c] = @ + 1] ELSE cells
     ELSE UNCHANGED <<files, cells>>
  /\ UNCHANGED <<index, heap, path_lock, num_handles_stable,
                 num_disk_state_consolidation, pc, loc, held, res, former, last_load>>

----------------------------------------------------------------------------

(* One caller and the environment *)

Next ==
  \/ \E mode \in RefreshModes, m \in {held.marker, DefaultMarker} : load_one_index(1, mode, m)
  \/ loi_compare(1)
  \/ snapshot(1)
  \/ cs_load(1)
  \/ cs_walk(1)
  \/ \E keeps \in BOOLEAN : cs_marker(1, keeps)
  \/ con_record(1)
  \/ \E sc \in ScanOutcomes : con_lock(1, sc, MaxConsolidations)
  \/ con_remove(1)
  \/ handle_stable_add
  \/ handle_stable_drop
  \/ \E s \in Slots, o \in OpenerOutcomes : load_index_file(s, o)

Spec == Init /\ [][Next]_vars

----------------------------------------------------------------------------
(* Two callers which refresh; the first takes snapshots too.  The          *)
(* directory holds at most the first index file, a pass fails only in      *)
(* alternate::resolve, and a file which is opened is there.                *)

ConcScanOutcomes ==
  {sc \in ScanOutcomes : /\ sc.entries \subseteq {IdxPath(1)}
                         /\ sc.unreadable = {}
                         /\ sc.rd = "ok"
                         /\ ~sc.mt_err}

NextConc ==
  \/ \E t \in Threads :
       \E mode \in ModesOf(t), m \in MarkersOf(t) : load_one_index(t, mode, m)
  \/ \E t \in Threads : loi_compare(t)
  \/ snapshot(1)
  \/ \E t \in Threads : cs_load(t)
  \/ \E t \in Threads : cs_walk(t)
  \/ \E t \in Threads : cs_marker(t, TRUE)
  \/ \E t \in Threads : con_record(t)
  \/ \E t \in Threads, sc \in ConcScanOutcomes : con_lock(t, sc, MaxConsolidations)
  \/ \E t \in Threads : con_remove(t)
  \/ handle_stable_add
  \/ \E s \in Slots : load_index_file(s, "ok")

SpecConc == Init /\ [][NextConc]_vars

----------------------------------------------------------------------------
(* One caller which refreshes after every change of the directory, for one *)
(* pass more than the other specifications allow: index files come and go, *)
(* every scan succeeds, and a file which is opened is there.               *)

RebindScanOutcomes ==
  {sc \in ScanOutcomes : /\ sc.unreadable = {}
                         /\ sc.rd = "ok"
                         /\ ~sc.alt_err
                         /\ ~sc.mt_err}

NextRebind ==
  \/ load_one_index(1, "AfterAllIndicesLoaded", held.marker)
  \/ loi_compare(1)
  \/ cs_load(1)
  \/ cs_walk(1)
  \/ cs_marker(1, TRUE)
  \/ con_record(1)
  \/ \E sc \in RebindScanOutcomes : con_lock(1, sc, MaxConsolidations + 1)
  \/ con_remove(1)
  \/ handle_stable_add
  \/ handle_stable_drop
  \/ \E s \in Slots : load_index_file(s, "ok")

SpecRebind == Init /\ [][NextRebind]_vars

----------------------------------------------------------------------------
(* One caller which refreshes again and again while the first index file   *)
(* comes and goes, long enough for the generation to use up its one byte:  *)
(* a generation is left after a limited number of passes.                  *)

WrapScanOutcomes == ConcScanOutcomes

NextWrap ==
  \/ load_one_index(1, "AfterAllIndicesLoaded", held.marker)
  \/ loi_compare(1)
  \/ cs_load(1)
  \/ cs_walk(1)
  \/ cs_marker(1, TRUE)
  \/ con_record(1)
  \/ \E sc \in WrapScanOutcomes :
       con_lock(1, sc, 2 * heap[index].generation + MaxConsolidations)
  \/ con_remove(1)
  \/ handle_stable_add
  \/ handle_stable_drop

SpecWrap == Init /\ [][NextWrap]_vars

----------------------------------------------------------------------------
(* A reader and a consolidating caller: thread 1 calls load_one_index in   *)
(* mode Never and snapshot(), thread 2 refreshes; files are loaded by      *)
(* threads which hold the write lock of the slot meanwhile.                *)

NextRead ==
  \/ \E m \in {held.marker, DefaultMarker} : load_one_index(1, "Never", m)
  \/ load_one_index(2, "AfterAllIndicesLoaded", marker(index, heap, cells))
  \/ \E t \in Threads : loi_compare(t)
  \/ snapshot(1)
  \/ \E t \in Threads : cs_load(t)
  \/ \E t \in Threads : cs_walk(t)
  \/ \E t \in Threads : cs_marker(t, TRUE)
  \/ \E t \in Threads : con_record(t)
  \/ \E t \in Threads, sc \in ConcScanOutcomes : con_lock(t, sc, MaxConsolidations)
  \/ \E t \in Threads : con_remove(t)
  \/ \E s \in Slots : loader_lock(s)
  \/ \E s \in Slots : loader_load(s, "ok")

SpecRead == Init /\ [][NextRead]_vars

----------------------------------------------------------------------------
(* OnDiskFile::do_load on its own: the files of the slots are in any state *)
(* and do_load is called on them with every result of the opener.          *)

OnDiskFileStates == {"Unloaded", "Loaded", "Garbage", "Missing"}

Members == {"index", "data"}

InitFile ==
  /\ index = 1
  /\ heap = [a \in Addrs |-> IF a = 1 THEN DefaultSlotMapIndex(1) ELSE NoObj]
  /\ cells = [k \in Addrs |-> 0]
  /\ files \in [Slots -> {[new_single(IdxPath(p)) EXCEPT !.index.state = si, !.data.state = sd] :
                            p \in {1}, si \in OnDiskFileStates, sd \in OnDiskFileStates}]
  /\ path_lock = NoThread
  /\ num_handles_stable = 0
  /\ num_disk_state_consolidation = 0
  /\ pc = [t \in Threads |-> "idle"]
  /\ loc = [t \in Threads |-> NoLocals]
  /\ held = EmptySnapshot
  /\ res = NoResult
  /\ former = [s \in Slots |-> None]
  /\ slot_lock = [s \in Slots |-> FALSE]
  /\ last_load = NoLoad

\* do_load is called on a file of slot s; retry tells that the call before
\* was on the same file and returned the error of the opener
file_do_load(s, member, opener) ==
  /\ files[s] # NoFiles
  /\ LET f == files[s][member]
         r == do_load(f, opener)
     IN  /\ files' = [files EXCEPT ![s][member] = r.file]
         /\ last_load' = [slot |-> s, member |-> member, opener |-> opener,
                          before |-> f.state, ret |-> r.ret,
                          opened |-> IF r.opened THEN 1 ELSE 0,
                          retry |-> /\ last_load.slot = s
                                    /\ last_load.member = member
                                    /\ last_load.ret = "Err"]
  /\ UNCHANGED <<index, heap, cells, path_lock, num_handles_stable,
                 num_disk_state_consolidation, pc, loc, held, res, former, slot_lock>>

NextFile == \E s \in Slots, member \in Members, opener \in OpenerOutcomes :
              file_do_load(s, member, opener)

SpecFile == InitFile /\ [][NextFile]_vars

----------------------------------------------------------------------------
(* collect_snapshot on its own: the published index lists any slots, the   *)
(* slots are empty or hold files in any state, and thread 1 takes          *)
(* snapshots.                                                              *)

SlotIndexLists == {<< >>, <<1>>, <<2>>, <<1, 2>>, <<2, 1>>}

\* a slot is empty, or its index file and its data file are in any state
BundleStates == {<<"-", "-">>} \cup (OnDiskFileStates \X OnDiskFileStates)

BundleIn(p, st) ==
  IF st = <<"-", "-">> THEN NoFiles
  ELSE [new_single(IdxPath(p)) EXCEPT !.index.state = st[1], !.data.state = st[2]]

InitCollect ==
  /\ index = 1
  /\ \E initialized \in BOOLEAN, l \in SlotIndexLists :
       /\ ~initialized => l = << >>
       /\ heap = [a \in Addrs |->
                   IF a = 1
                   THEN [DefaultSlotMapIndex(1) EXCEPT
                           !.slot_indices = l,
                           !.loose_dbs = IF initialized THEN <<ObjectsDirectory>> ELSE << >>]
                   ELSE NoObj]
  /\ cells = [k \in Addrs |-> 0]
  /\ files \in {[s \in Slots |-> BundleIn(s, st[s])] : st \in [Slots -> BundleStates]}
  /\ path_lock = NoThread
  /\ num_handles_stable = 0
  /\ num_disk_state_consolidation = 0
  /\ pc = [t \in Threads |-> "idle"]
  /\ loc = [t \in Threads |-> NoLocals]
  /\ held = EmptySnapshot
  /\ res = NoResult
  /\ former = [s \in Slots |-> None]
  /\ slot_lock = [s \in Slots |-> FALSE]
  /\ last_load = NoLoad

NextCollect ==
  \/ snapshot(1)
  \/ cs_walk(1)
  \/ cs_marker(1, TRUE)

SpecCollect == InitCollect /\ [][NextCollect]_vars

----------------------------------------------------------------------------
(* One thread with two handles, for one pass more than the other           *)
(* specifications allow: one handle keeps the Snapshot it got, the other   *)
(* calls with the marker of the published index and its outcome is         *)
(* dropped; the first index file comes and goes, every scan succeeds.      *)

ReuseScanOutcomes ==
  {sc \in ConcScanOutcomes : ~sc.alt_err}

NextReuse ==
  \/ \E mode \in RefreshModes, m \in {held.marker, marker(index, heap, cells)} :
       load_one_index(1, mode, m)
  \/ loi_compare(1)
  \/ cs_load(1)
  \/ cs_walk(1)
  \/ \E keeps \in BOOLEAN : cs_marker(1, keeps)
  \/ con_record(1)
  \/ \E sc \in ReuseScanOutcomes : con_lock(1, sc, MaxConsolidations + 1)
  \/ con_remove(1)
  \/ \E s \in Slots : load_index_file(s, "ok")

SpecReuse == Init /\ [][NextReuse]_vars

----------------------------------------------------------------------------
(* Properties *)

\* thread t is in the call it started with load_one_index and takes a step
Steps(t) == pc'[t] # pc[t]

\* thread t is between the acquisition of the directory-scan lock and its release
InCritical(t) == loc[t].via \in {"changed", "pass"}

\* the slot ids a sequence of slot indices holds
SlotIdsOf(slot_indices) == {slot_indices[k] : k \in 1..Len(slot_indices)}

\* C1: a call on an initialized store whose marker is of another generation
\* than the index it loads answers Replace, in either mode, and neither takes
\* the directory-scan lock nor changes the consolidation counter or the
\* published index.
C1_OtherGenerationReplaces ==
  [][/\ ( /\ pc[1] = "loi_compare"
          /\ Steps(1)
          /\ loc[1].marker.generation # heap[loc[1].loi_index].generation )
        => /\ pc'[1] = "cs_load"
           /\ loc'[1].via = "generation"
           /\ ~loc'[1].is_stable
     /\ loc[1].via = "generation"
        => /\ path_lock' = NoThread
           /\ num_disk_state_consolidation' = num_disk_state_consolidation
           /\ index' = index
           /\ pc'[1] \in {"cs_load", "cs_walk", "cs_marker", "idle"}
           /\ pc'[1] = "idle" => res'.kind = "Replace"
    ]_vars

\* a call of either mode is about to answer Replace for a marker of another generation
C1_Witness ==
  /\ pc[1] = "cs_marker"
  /\ loc[1].via = "generation"
  /\ loc[1].marker.generation # heap[loc[1].loi_index].generation
  /\ is_initialized(heap[loc[1].loi_index])

\* the marker of the index a call loaded at its start, as it is now
CurrentMarker(t) == marker(loc[t].loi_index, heap, cells)

\* C2 as stated: a call in mode Never which repeats the marker of a call that
\* answered NothingNew, with no consolidation in between, answers NothingNew
\* as well.
C2_RepeatedCallNothingNew ==
  [][( /\ pc[1] = "loi_compare"
       /\ Steps(1)
       /\ res.kind = "NothingNew"
       /\ loc[1].mode = "Never"
       /\ loc[1].marker = res.marker )
     => /\ pc'[1] = "idle"
        /\ res'.kind = "NothingNew"
    ]_vars

\* C2, amended: a call in mode Never whose marker is the current marker of the
\* published index answers NothingNew and changes neither the published index,
\* nor a slot, nor a counter; so does a second call with the same marker, as
\* long as no file was loaded between the two.
C2_CurrentMarkerNothingNew ==
  [][( /\ pc[1] = "loi_compare"
       /\ Steps(1)
       /\ loc[1].mode = "Never"
       /\ loc[1].marker = CurrentMarker(1) )
     => /\ pc'[1] = "idle"
        /\ res' = [kind |-> "NothingNew", marker |-> loc[1].marker, first |-> FALSE]
        /\ index' = index
        /\ heap'[index] = heap[index]
        /\ files' = files
        /\ cells'[heap[index].loaded_indices] = cells[heap[index].loaded_indices]
        /\ num_disk_state_consolidation' = num_disk_state_consolidation
        /\ path_lock' = path_lock
        /\ held' = held
    ]_vars

\* the second of two calls in mode Never with the same, current marker
C2_Witness ==
  /\ pc[1] = "loi_compare"
  /\ res.kind = "NothingNew"
  /\ loc[1].mode = "Never"
  /\ loc[1].marker = res.marker
  /\ loc[1].marker = CurrentMarker(1)
  /\ heap[index].slot_indices # << >>

\* the marker of the index a call loaded, had one file less been loaded
MarkerOneLoadAgo(t) ==
  LET a == loc[t].loi_index
      n == cells[heap[a].loaded_indices]
  IN  [generation |-> heap[a].generation,
       state_id |-> StateIdTable[a][IF n > 0 THEN n - 1 ELSE 0]]

\* C3: a marker taken from the published index before one file was loaded has
\* another state id than the index has now, and a call with it answers
\* ReplaceStable in either mode without a consolidation.
C3_FingerprintSensitive ==
  [][/\ ( /\ pc[1] = "loi_compare"
          /\ Steps(1)
          /\ cells[heap[loc[1].loi_index].loaded_indices] > 0
          /\ loc[1].marker = MarkerOneLoadAgo(1) )
        => /\ state_id(loc[1].loi_index, heap, cells) # loc[1].marker.state_id
           /\ pc'[1] = "cs_load"
           /\ loc'[1].via = "state"
           /\ loc'[1].is_stable
     /\ loc[1].via = "state"
        => /\ path_lock' = NoThread
           /\ num_disk_state_consolidation' = num_disk_state_consolidation
           /\ index' = index
           /\ pc'[1] \in {"cs_load", "cs_walk", "cs_marker", "idle"}
           /\ pc'[1] = "idle" => res'.kind = "ReplaceStable"
    ]_vars

\* a call is about to answer ReplaceStable for a marker which is one load old
C3_Witness ==
  /\ pc[1] = "cs_marker"
  /\ loc[1].via = "state"
  /\ loc[1].cs_index = loc[1].loi_index
  /\ cells[heap[loc[1].loi_index].loaded_indices] > 0
  /\ loc[1].marker = MarkerOneLoadAgo(1)

\* C4: a call which answers ReplaceStable answers with a snapshot of the
\* generation of its marker (fast path) or of the generation it recorded
\* before it took the lock (short-circuit).
C4_StableKeepsGeneration ==
  \A t \in Threads :
    (pc[t] = "cs_marker" /\ loc[t].is_stable)
    => /\ loc[t].via = "state"
          => heap[loc[t].cs_index].generation = loc[t].marker.generation
       /\ loc[t].via = "changed"
          => heap[loc[t].cs_index].generation = loc[t].previous_generation

C6_StableIffHandles ==
  [][\A t \in Threads :
       (pc[t] = "con_lock" /\ loc'[t].via = "pass")
       => (loc'[t].needs_stable_indices <=> num_handles_stable >= 1)
    ]_vars

\* C7: a pass which finds the path of a slot gone while a handle demands
\* stability keeps the slot in the published index and the generation as it is.
C7_StabilityGuarantee ==
  [][\A t \in Threads :
       (pc[t] = "con_lock" /\ loc'[t].via = "pass" /\ loc'[t].removed # {}
        /\ num_handles_stable >= 1)
       => /\ heap'[index'].generation = heap[index].generation
          /\ loc'[t].removed \subseteq SlotIdsOf(heap'[index'].slot_indices)
          /\ loc'[t].needs_stable_indices
    ]_vars

\* a pass of thread t publishes in this step
Publishes(t) == pc[t] = "con_lock" /\ loc'[t].via = "pass"

\* the pass of thread t which publishes in this step clears a slot: a path is
\* gone from the scan and stability is not required
Clears(t) == loc'[t].removed # {} /\ ~loc'[t].needs_stable_indices

C9_NoPathRebinding ==
  [][\A s \in Slots :
       (files[s] # NoFiles /\ files'[s] # NoFiles)
       => index_path(files'[s]) = index_path(files[s])
    ]_vars

\* a slot is bound to another path than the one it had when it was emptied
C9_Witness ==
  \E s \in Slots :
    /\ files[s] # NoFiles
    /\ former[s] # None
    /\ former[s] # index_path(files[s])

\* C10: at most one thread is between the acquisition and the release of the
\* directory-scan lock, and the published index changes only in a step of the
\* thread which holds the lock.
C10_MutualExclusion ==
  [][/\ \A t, u \in Threads : (InCritical(t)' /\ InCritical(u)') => t = u
     /\ index' # index
        => \E t \in Threads : /\ Steps(t)
                               /\ InCritical(t)'
                               /\ path_lock' = t
                               /\ \A u \in Threads \ {t} : ~InCritical(u)
    ]_vars

\* a thread waits for the lock while the other one holds it after publishing
C10_Witness ==
  \E t, u \in Threads :
    /\ loc[t].via = "pass"
    /\ path_lock = t
    /\ pc[u] = "con_lock"

\* C11: a thread which finds, with the lock, another index published than the
\* one it recorded counts no pass, scans and publishes nothing, changes no
\* slot, and answers Replace if the generation differs from the recorded one
\* and ReplaceStable otherwise.
C11_ShortCircuit ==
  [][\A t \in Threads :
       /\ ( /\ pc[t] = "con_lock"
            /\ Steps(t)
            /\ loc[t].con_index # index )
          => /\ loc'[t].via = "changed"
             /\ loc'[t].is_stable
                  <=> heap[index].generation = loc[t].previous_generation
             /\ pc'[t] = "cs_load"
       /\ (loc[t].via = "changed" /\ Steps(t))
          => /\ num_disk_state_consolidation' = num_disk_state_consolidation
             /\ index' = index
             /\ files' = files
             /\ pc'[t] \in {"cs_walk", "cs_marker", "idle"}
             /\ (t = 1 /\ pc'[t] = "idle")
                => /\ res'.kind = IF loc[t].is_stable THEN "ReplaceStable" ELSE "Replace"
                   /\ held'.marker.generation = heap[index].generation
    ]_vars

\* a thread which lost the race is about to answer Replace: the generation
\* changed while it waited for the lock
C11_Witness ==
  /\ pc[1] = "cs_marker"
  /\ loc[1].via = "changed"
  /\ ~loc[1].is_stable
  /\ heap[index].generation # loc[1].previous_generation

\* C12: a pass which fails returns the error to its caller with the lock
\* released, the index published before still published and unchanged, and
\* every slot as it was; the next call of the caller which finds the same
\* index published makes a pass of its own.
C12_FailedPassChangesNothing ==
  [][/\ (pc[1] = "con_lock" /\ pc'[1] = "idle")
        => /\ res'.kind = "Err"
           /\ index' = index
           /\ heap'[index] = heap[index]
           /\ files' = files
           /\ held' = held
           /\ path_lock' = NoThread
     /\ ( /\ res.kind = "Err"
          /\ pc[1] = "con_lock"
          /\ Steps(1)
          /\ loc[1].con_index = index )
        => num_disk_state_consolidation' = num_disk_state_consolidation + 1
    ]_vars

\* a pass has failed on a store which has a slot bound
C12_Witness ==
  /\ res.kind = "Err"
  /\ pc[1] = "idle"
  /\ heap[index].slot_indices # << >>
  /\ \E s \in Slots : files[s] # NoFiles

\* a call which only reads: snapshot(), or load_one_index in mode Never
\* which found the store initialized
ReaderCall(t) ==
  /\ pc[t] # "idle"
  /\ \/ loc[t].via = "snapshot"
     \/ loc[t].mode = "Never" /\ is_initialized(heap[loc[t].loi_index])

\* the next step of a reading call
ReaderStep(t) == loi_compare(t) \/ cs_load(t) \/ cs_walk(t) \/ cs_marker(t, TRUE)

\* the number of steps a reading call has left at most
ReaderRank(p) ==
  CASE p = "idle" -> 0
    [] p = "cs_marker" -> 1
    [] p = "cs_walk" -> 2
    [] p = "cs_load" -> 3
    [] p = "loi_compare" -> 4
    [] OTHER -> 5

\* C13: readers never block. A call of snapshot(), or of load_one_index in
\* mode Never on an initialized store, never comes to acquire the
\* directory-scan lock nor the write lock of a slot: it is never at a step
\* of consolidate_with_disk_state, never holds a lock, its next step can be
\* taken whoever holds the locks, and every step of it brings it nearer to
\* its return, so it completes within four steps of its own.
C13_ReadersNeverBlock ==
  [][\A t \in Threads :
       ReaderCall(t)
       => /\ ReaderRank(pc[t]) <= 4
          /\ path_lock # t
          /\ ENABLED ReaderStep(t)
          /\ Steps(t)
             => /\ ReaderRank(pc'[t]) < ReaderRank(pc[t])
                /\ path_lock' = path_lock
                /\ slot_lock' = slot_lock
    ]_vars

\* a call in mode Never walks the slots while another thread holds the
\* directory-scan lock and the write lock of a slot of the snapshot is held
C13_Witness ==
  /\ pc[1] = "cs_walk"
  /\ loc[1].mode = "Never"
  /\ is_initialized(heap[loc[1].loi_index])
  /\ path_lock = 2
  /\ \E k \in 1..Len(heap[loc[1].cs_index].slot_indices) :
       slot_lock[heap[loc[1].cs_index].slot_indices[k]]

\* the call of thread 1 is a load_one_index which found the store uninitialized
FirstCall ==
  /\ loc[1].loi_index # NoAddr
  /\ ~is_initialized(heap[loc[1].loi_index])

\* C14: a load_one_index on a store whose published snapshot is
\* uninitialized goes to consolidate_with_disk_state whatever the marker and
\* the refresh mode are, and performs a pass; a pass which succeeds publishes
\* an initialized snapshot with the primary directory as first loose store,
\* the outcome the caller gets has it too, the published snapshot stays
\* initialized ever after, and when no index file was found the following
\* load_one_index in mode Never with the marker of the outcome returns
\* NothingNew.
C14_FirstCallInitializes ==
  [][/\ ( /\ pc[1] = "idle" /\ Steps(1) /\ loc'[1].via # "snapshot"
          /\ ~is_initialized(heap[index]) )
        => pc'[1] = "con_record"
     /\ (pc[1] = "con_lock" /\ Steps(1) /\ FirstCall)
        => /\ num_disk_state_consolidation' = num_disk_state_consolidation + 1
           /\ pc'[1] # "idle"
              => /\ is_initialized(heap'[index'])
                 /\ Head(heap'[index'].loose_dbs) = ObjectsDirectory
     /\ (pc[1] = "cs_marker" /\ Steps(1) /\ FirstCall)
        => /\ res'.kind \in {"Replace", "ReplaceStable"}
           /\ res'.first
              => /\ held'.loose_dbs # << >>
                 /\ Head(held'.loose_dbs) = ObjectsDirectory
                 /\ is_initialized(heap'[index'])
     /\ is_initialized(heap[index]) => is_initialized(heap'[index'])
     /\ ( /\ res.first
          /\ pc[1] = "loi_compare" /\ Steps(1)
          /\ loc[1].mode = "Never"
          /\ loc[1].marker = held.marker
          /\ heap[index].slot_indices = << >> )
        => /\ pc'[1] = "idle"
           /\ res'.kind = "NothingNew"
    ]_vars

\* the first call has initialized the store from an empty directory and the
\* caller calls again in mode Never with the marker it got
C14_Witness ==
  /\ res.first
  /\ pc[1] = "loi_compare"
  /\ loc[1].mode = "Never"
  /\ loc[1].marker = held.marker
  /\ held.loose_dbs # << >>
  /\ heap[index].slot_indices = << >>
  /\ num_disk_state_consolidation = 1

\* a call of do_load has been made on the file which was in state st
DoLoadOn(st) ==
  /\ last_load' # last_load \/ files' # files
  /\ last_load'.before \in st

\* the file the last call of do_load was made on, before and after the call
FileBefore == files[last_load'.slot][last_load'.member]
FileAfter == files'[last_load'.slot][last_load'.member]

\* the call of do_load has left every other file alone
OthersUntouched ==
  \A s \in Slots, m \in Members :
    (s # last_load'.slot \/ m # last_load'.member) => files'[s][m] = files[s][m]

\* C15: do_load on an Unloaded file invokes the opener once; when the opener
\* succeeds the file is Loaded with the value and Some is returned, when it
\* finds no file the file is Missing and None is returned, on any other
\* error the file stays Unloaded and the error is returned, and a later
\* do_load on that file invokes the opener again.
C15_DoLoadUnloaded ==
  [][DoLoadOn({"Unloaded"})
     => /\ FileBefore.state = "Unloaded"
        /\ last_load'.opened = 1
        /\ FileAfter.path = FileBefore.path
        /\ OthersUntouched
        /\ last_load'.opener = "ok"
           => /\ FileAfter.state = "Loaded"
              /\ loaded(FileAfter) = FileBefore.path
              /\ last_load'.ret = "Some"
        /\ last_load'.opener = "notfound"
           => /\ FileAfter.state = "Missing"
              /\ last_load'.ret = "None"
        /\ last_load'.opener = "error"
           => /\ FileAfter = FileBefore
              /\ last_load'.ret = "Err"
        /\ last_load'.retry => last_load.ret = "Err"
    ]_vars

\* the opener has failed with an error on a file, and the next do_load on
\* the file has called the opener again and loaded the file
C15_Witness ==
  /\ last_load.retry
  /\ last_load.before = "Unloaded"
  /\ last_load.opened = 1
  /\ last_load.ret = "Some"
  /\ files[last_load.slot][last_load.member].state = "Loaded"

\* C16: do_load never takes a file back. On a Missing file it returns None
\* without invoking the opener and the file stays Missing; on a Loaded or
\* Garbage file it does not return at all (a programming error) and the
\* file keeps state and value; no file which is Loaded, Garbage or Missing
\* is Unloaded after a call.
C16_OneWayTransitions ==
  [][/\ DoLoadOn({"Missing"})
        => /\ FileBefore.state = "Missing"
           /\ last_load'.ret = "None"
           /\ last_load'.opened = 0
           /\ files' = files
     /\ DoLoadOn({"Loaded", "Garbage"})
        => /\ FileBefore.state \in {"Loaded", "Garbage"}
           /\ last_load'.ret = "panic"
           /\ last_load'.opened = 0
           /\ files' = files
     /\ \A s \in Slots, m \in Members :
          (files[s] # NoFiles /\ files[s][m].state # "Unloaded")
          => /\ files'[s] # NoFiles
             /\ files'[s][m].state # "Unloaded"
    ]_vars

\* do_load has been called on a file which the opener had not found before
C16_Witness ==
  /\ last_load.before = "Missing"
  /\ last_load.ret = "None"
  /\ last_load.opened = 0
  /\ files[last_load.slot][last_load.member].state = "Missing"
  /\ \E s \in Slots, m \in Members : files[s][m].state = "Garbage"

\* a filesystem call of the scan has failed with an error other than not-found
ScanError(sc) == sc.rd = "error" \/ sc.unreadable # {} \/ sc.mt_err

\* C17: every filesystem error of the scan other than not-found aborts the
\* pass and is returned to the caller: when read_dir of the pack directory,
\* the reading of a directory entry, the metadata of an entry or its
\* modification time fails, the pass returns the error and publishes
\* nothing, so no entry is left out of a published snapshot by such a
\* failure.
C17_ScanErrorsAbort ==
  [][\A sc \in ScanOutcomes :
       ( /\ ScanError(sc)
         /\ loc[1].con_index = index
         /\ con_lock(1, sc, MaxConsolidations) )
       => /\ pc'[1] = "idle"
          /\ res'.kind = "Err"
          /\ index' = index
          /\ files' = files
    ]_vars

\* the pass of thread a fails in this step
PassFails(a) == pc[a] = "con_lock" /\ pc'[a] = "idle"

\* C18: when the pass of a thread fails while another thread waits for the
\* directory-scan lock, the published snapshot is the same object as before
\* and the lock is free; the waiting thread which had recorded that snapshot
\* finds it again when it gets the lock and performs a pass of its own,
\* which is counted and ends in its own publication or its own error: it
\* does not take the short-circuit of lines 101-107 and it has no error
\* without a pass of its own.
C18_WaiterPassesItself ==
  [][\A a \in Threads : \A b \in Threads \ {a} :
       /\ (PassFails(a) /\ pc[b] = "con_lock")
          => /\ index' = index
             /\ heap'[index] = heap[index]
             /\ path_lock' = NoThread
             /\ pc'[b] = "con_lock"
             /\ loc'[b].con_index = loc[b].con_index
             /\ loc'[b].waited
       /\ (pc[b] = "con_lock" /\ loc[b].waited /\ loc[b].con_index = index /\ Steps(b))
          => /\ num_disk_state_consolidation' = num_disk_state_consolidation + 1
             /\ loc'[b].via # "changed"
             /\ \/ pc'[b] = "idle" /\ index' = index /\ (b = 1 => res'.kind = "Err")
                \/ /\ pc'[b] \in {"cs_load", "con_remove"}
                   /\ loc'[b].via = "pass"
                   /\ index' # index
                   /\ path_lock' = b
       /\ (b = 1 /\ Steps(b) /\ pc'[b] = "idle" /\ res'.kind = "Err")
          => pc[b] = "con_lock" /\ loc[b].con_index = index
    ]_vars

\* thread 1 has waited for the lock while the pass of thread 2 has failed,
\* and has published the result of its own pass since
C18_Witness ==
  /\ loc[1].waited
  /\ loc[1].via = "pass"
  /\ pc[1] = "cs_load"
  /\ path_lock = 1
  /\ loc[1].con_index # index
  /\ loc[1].con_index2 = loc[1].con_index

\* the positions of the slot index list of i whose slot holds files with a
\* loaded index file
LoadedPositions(i, F) ==
  {k \in 1..Len(i.slot_indices) :
     /\ F[i.slot_indices[k]] # NoFiles
     /\ F[i.slot_indices[k]].index.state \in {"Loaded", "Garbage"}}

\* C19: collect_snapshot yields one entry for every slot index of the
\* snapshot whose slot holds files with a Loaded or Garbage index file, in
\* the order of the slot index list and with the slot index as id; empty
\* slots and slots whose index file is Unloaded or Missing have no entry; a
\* data file which is not loaded makes the data of the entry None; an
\* uninitialized snapshot yields no entry. The Snapshot returned has these
\* entries.
C19_CollectIndices ==
  [][/\ (pc[1] = "cs_walk" /\ Steps(1))
        => LET i == heap[loc[1].cs_index]
               P == IF is_initialized(i) THEN LoadedPositions(i, files) ELSE {}
               out == loc'[1].indices
           IN  /\ Len(out) = Cardinality(P)
               /\ \A k \in P :
                    LET n == Cardinality({j \in P : j <= k})
                        b == files[i.slot_indices[k]]
                    IN  /\ out[n].id = i.slot_indices[k]
                        /\ out[n].index = b.index.path
                        /\ out[n].data = IF b.data.state \in {"Loaded", "Garbage"}
                                         THEN b.data.path ELSE None
     /\ (pc[1] = "cs_marker" /\ Steps(1) /\ loc[1].via = "snapshot")
        => held'.indices = loc[1].indices
    ]_vars

\* a snapshot of two slots has been collected, in the order of the slot
\* index list; the data file of the first is not loaded
C19_Witness ==
  /\ pc[1] = "cs_marker"
  /\ loc[1].via = "snapshot"
  /\ heap[loc[1].cs_index].slot_indices = <<2, 1>>
  /\ Len(loc[1].indices) = 2
  /\ loc[1].indices[1].id = 2
  /\ loc[1].indices[1].data = None
  /\ loc[1].indices[2].id = 1

\* C20: the state id changes whenever the published snapshot is replaced.
\* When a pass publishes a snapshot, its marker differs from the marker a
\* caller has taken from a snapshot published before, also when that
\* snapshot has been released by everybody since; so a later
\* load_one_index in mode Never with the marker taken before does not
\* find the state unchanged.
C20_StateIdChangesOnReplace ==
  [][(index' # index /\ held.loose_dbs # << >>)
     => held.marker # marker(index', heap', cells')
    ]_vars

\* the slots of the published index whose index file is loaded
LoadedSlots ==
  {s \in SlotIdsOf(heap[index].slot_indices) :
     files[s] # NoFiles /\ is_loaded(files[s].index)}

\* C21: NothingNew is never returned to a caller whose Snapshot lacks a
\* loaded index. When load_one_index in mode Never answers NothingNew for
\* the marker of the Snapshot the caller holds, every slot of the published
\* index whose index file is loaded has an entry in the indices of that
\* Snapshot, also when a file was loaded while the Snapshot was collected.
C21_NothingNewCoversLoaded ==
  [][( /\ pc[1] = "loi_compare" /\ pc'[1] = "idle"
       /\ loc[1].mode = "Never"
       /\ loc[1].marker = held.marker
       /\ res'.kind = "NothingNew" )
     => \A s \in LoadedSlots :
          \E n \in 1..Len(held.indices) : held.indices[n].id = s
    ]_vars

====
